---- MODULE Spec2Model ----
(***************************************************************************)
(* Visitor-request lifecycle of the visitor management backend:            *)
(* backend/routes/requests.js, backend/routes/admin.js (force-accept),     *)
(* the Request schema and its pre-save hook, and the auth middleware.      *)
(*                                                                         *)
(* Every HTTP handler is a sequence of steps separated by its awaits on    *)
(* the store: the step that reads the Request and evaluates the guards,    *)
(* and the save(s); the last save of a call also writes the audit record   *)
(* and answers.  The answer then leaves the server (Sent).                 *)
(* Handlers of different HTTP calls interleave between these steps.        *)
(* Document.save() validates the document against the schema and then      *)
(* writes only the paths the handler modified.                             *)
(*                                                                         *)
(* Spec interleaves two handlers on one triple, SeqSpec runs one call at   *)
(* a time over the whole directory, LimitSpec puts POST / behind its rate  *)
(* limiter, with a longer queue and clock.                                 *)
(***************************************************************************)
EXTENDS Integers, Sequences, FiniteSets, TLC

\* ---------------------------------------------------------------- bounds
MaxRequests == 2
MaxTime == 2
\* HTTP calls that pass their guards in a run with concurrent handlers
MaxCalls == 4
\* LimitSpec: stored requests, and clock values
WindowRequests == 4
WindowTime == 3

\* null of the schema defaults (dates are positive clock readings)
Null == 0
NoMessage == "undefined"
NoString == "null"

\* ------------------------------------------------- directory (other entities)
\* Visitor, Company, Member and Admin records behind findById.  An id that is
\* not in the DOMAIN does not exist in the store.
Visitors ==
  [v \in {"v1", "vBlack"} |-> [isBlacklisted |-> (v = "vBlack"), email |-> (v = "v1")]]

Companies ==
  [c \in {"c1", "c2", "cOff"} |-> [isActive |-> (c # "cOff")]]

Members ==
  [m \in {"m1", "m2", "mOff"} |->
    [isActive  |-> (m # "mOff"),
     preferences |-> [emailNotifications |-> TRUE, smsNotifications |-> (m # "m2")],
     companies |-> IF m = "m1"
                   THEN {[company |-> "c1", isActive |-> TRUE],
                         [company |-> "c2", isActive |-> TRUE]}
                   ELSE IF m = "m2"
                   THEN {[company |-> "c1", isActive |-> TRUE],
                         [company |-> "c2", isActive |-> FALSE]}
                   ELSE {[company |-> "c1", isActive |-> TRUE]}]]

Admins ==
  [a \in {"aSuper", "aManage", "aPlain"} |->
    [role        |-> IF a = "aSuper" THEN "super_admin" ELSE "admin",
     permissions |-> [manageRequests |-> (a = "aManage")]]]

\* ids a client can put in a request body (existing or not)
VisitorIds == DOMAIN Visitors \cup {"vNone"}
CompanyIds == DOMAIN Companies \cup {"cNone"}
MemberIds  == DOMAIN Members \cup {"mNone"}

\* authenticated callers: what verifyToken leaves in req.user / req.userType
Callers ==
  {[userType |-> "member", id |-> m] : m \in {"m1", "m2"}} \cup
  {[userType |-> "admin", id |-> a] : a \in DOMAIN Admins}

\* concurrent HTTP handlers
Handlers == {"h1", "h2"}

\* client addresses (req.ip), the key of the rate limiter
Ips == {"ip1", "ip2"}

\* ------------------------------------------------------- Request schema
StatusEnum == {"pending", "accepted", "declined", "completed", "cancelled", "expired"}

ActionEnum == {"accept", "decline", "reschedule"}

\* memberResponse.respondedAt and notifications.lastNotificationSent hold
\* new Date() and are read by no route: they are left out of the documents,
\* as are purpose, duration, tags, notes and updatedAt
NoResponse ==
  [action |-> NoString, message |-> NoMessage, proposedTime |-> Null]

NoEntry ==
  [allowedAt |-> Null, enteredAt |-> Null, exitedAt |-> Null,
   entryGate |-> NoString, securityPersonnel |-> NoString]

NoNotifications ==
  [sentToMember |-> FALSE, sentToVisitor |-> FALSE]

\* new Request({...}) with the schema defaults
NewRequest(v, c, m, st) ==
  [visitor |-> v, company |-> c, member |-> m,
   scheduledTime |-> st,
   status |-> "pending",
   priority |-> 0,
   queuePosition |-> 0,
   estimatedWaitTime |-> 0,
   memberResponse |-> NoResponse,
   entryDetails |-> NoEntry,
   notifications |-> NoNotifications,
   createdAt |-> Null]

NoDoc == [status |-> "none"]

VARIABLES
  requests,   \* the Request collection, in insertion order; _id = index
  auditLog,   \* the AuditLog collection
  handlers,   \* per handler slot: the HTTP call in flight and its position
  resp,       \* the HTTP response sent by the last step, if it sent one
  now,        \* the clock read by new Date()
  calls,      \* the number of HTTP calls that passed their guards (Spec only)
  effects,    \* the side effects the last step emitted, in their order
  raced,      \* history: a create passed its duplicate check while another
              \* create of the same triple had not inserted yet (Spec only)
  hits,       \* the store of requestCreationLimit: per client address, the
              \* POST / calls counted in the current window (LimitSpec only)
  reached     \* history: per client address, the POST / calls of the
              \* current window that entered the create handler

vars == <<requests, auditLog, handlers, resp, now, effects, calls, raced, hits, reached>>

limiter == <<hits, reached>>

Idle ==
  [op |-> "idle", pc |-> "idle", rid |-> 0,
   loaded |-> NoDoc, doc |-> NoDoc, action |-> NoString]

Ids == 1..Len(requests)

Response(op, code, message) == [op |-> op, code |-> code, message |-> message]

NoResp == Response("none", 0, "")

Init ==
  /\ requests = <<>>
  /\ auditLog = {}
  /\ handlers = [h \in Handlers |-> Idle]
  /\ resp = NoResp
  /\ now = 1
  /\ effects = <<>>
  /\ calls = 0
  /\ raced = FALSE
  /\ hits = [ip \in Ips |-> 0]
  /\ reached = [ip \in Ips |-> 0]

\* res.json(...): the response of the call leaves the server
Sent ==
  /\ resp # NoResp
  /\ resp' = NoResp
  /\ effects' = <<>>
  /\ UNCHANGED <<requests, auditLog, handlers, now>>

\* no response is on its way out
Quiet == resp = NoResp

\* time passes, up to the clock value max
TickTo(max) ==
  /\ now < max
  /\ now' = now + 1
  /\ resp' = NoResp
  /\ effects' = <<>>
  /\ UNCHANGED <<requests, auditLog, handlers>>

Tick == TickTo(MaxTime)

\* ------------------------------------------------------ Document.save()
\* faulty variant of Validates: the status enum is not enforced
ValidatesAnyStatus(d) ==
  d.memberResponse.action \in ActionEnum \cup {NoString}

\* schema validation run by save(): the enum validators
Validates(d) ==
  /\ d.status \in StatusEnum
  /\ d.memberResponse.action \in ActionEnum \cup {NoString}

\* one path of the update save() sends: the handler's value when the handler
\* changed the path after loading it, the persisted value otherwise
Path(p, l, d) == IF d # l THEN d ELSE p

\* the persisted document p after save() of document d that was loaded as l;
\* responded: the handler assigned memberResponse, whose respondedAt is a new
\* Date() and so always differs from the loaded one
WriteModified(p, l, d, responded) ==
  [p EXCEPT
    !.queuePosition = Path(p.queuePosition, l.queuePosition, d.queuePosition),
    !.scheduledTime = Path(p.scheduledTime, l.scheduledTime, d.scheduledTime),
    !.status = Path(p.status, l.status, d.status),
    !.memberResponse = IF responded THEN d.memberResponse ELSE p.memberResponse,
    !.entryDetails =
      [allowedAt |-> Path(p.entryDetails.allowedAt, l.entryDetails.allowedAt,
                          d.entryDetails.allowedAt),
       enteredAt |-> Path(p.entryDetails.enteredAt, l.entryDetails.enteredAt,
                          d.entryDetails.enteredAt),
       exitedAt |-> Path(p.entryDetails.exitedAt, l.entryDetails.exitedAt,
                         d.entryDetails.exitedAt),
       entryGate |-> Path(p.entryDetails.entryGate, l.entryDetails.entryGate,
                          d.entryDetails.entryGate),
       securityPersonnel |-> Path(p.entryDetails.securityPersonnel,
                                  l.entryDetails.securityPersonnel,
                                  d.entryDetails.securityPersonnel)],
    !.notifications =
      [sentToMember |-> Path(p.notifications.sentToMember,
                             l.notifications.sentToMember,
                             d.notifications.sentToMember),
       sentToVisitor |-> Path(p.notifications.sentToVisitor,
                              l.notifications.sentToVisitor,
                              d.notifications.sentToVisitor)]]

\* faulty variant of CountPendingBefore: $lte in place of $lt
CountPendingUpTo(c, createdAt) ==
  Cardinality({i \in Ids : /\ requests[i].company = c
                           /\ requests[i].status = "pending"
                           /\ requests[i].createdAt <= createdAt})

\* faulty variant of CountPendingBefore: $gt in place of $lt
CountPendingAfter(c, createdAt) ==
  Cardinality({i \in Ids : /\ requests[i].company = c
                           /\ requests[i].status = "pending"
                           /\ requests[i].createdAt > createdAt})

\* countDocuments({company, status: 'pending', createdAt: {$lt: createdAt}})
CountPendingBefore(c, createdAt) ==
  Cardinality({i \in Ids : /\ requests[i].company = c
                           /\ requests[i].status = "pending"
                           /\ requests[i].createdAt < createdAt})

\* faulty variant of ExistingRequest: the query looks for an accepted request
ExistingRequestAccepted(v, m, c) ==
  {i \in Ids : /\ requests[i].visitor = v
               /\ requests[i].member = m
               /\ requests[i].company = c
               /\ requests[i].status = "accepted"}

\* faulty variant of ExistingRequest: the query looks for a pending or an
\* accepted request
ExistingRequestActive(v, m, c) ==
  {i \in Ids : /\ requests[i].visitor = v
               /\ requests[i].member = m
               /\ requests[i].company = c
               /\ requests[i].status \in {"pending", "accepted"}}

\* Request.findOne({visitor, member, company, status: 'pending'})
ExistingRequest(v, m, c) ==
  {i \in Ids : /\ requests[i].visitor = v
               /\ requests[i].member = m
               /\ requests[i].company = c
               /\ requests[i].status = "pending"}

\* ------------------------------------------------------------ POST /
\* faulty variant of CreateGuard: the duplicate check is missing
CreateGuardNoDuplicateCheck(v, c, m) ==
  IF v \notin DOMAIN Visitors
  THEN Response("create", 404, "Visitor not found")
  ELSE IF Visitors[v].isBlacklisted
  THEN Response("create", 403, "Visitor is blacklisted and cannot make requests")
  ELSE IF c \notin DOMAIN Companies \/ ~Companies[c].isActive
  THEN Response("create", 404, "Company not found")
  ELSE IF m \notin DOMAIN Members \/ ~Members[m].isActive
  THEN Response("create", 404, "Member not found")
  ELSE IF ~\E mc \in Members[m].companies : mc.company = c /\ mc.isActive
  THEN Response("create", 400, "Member does not belong to this company")
  ELSE Response("create", 0, "")

\* faulty variant of CreateGuard: the company is checked before the visitor
CreateGuardCompanyFirst(v, c, m) ==
  IF c \notin DOMAIN Companies \/ ~Companies[c].isActive
  THEN Response("create", 404, "Company not found")
  ELSE IF v \notin DOMAIN Visitors
  THEN Response("create", 404, "Visitor not found")
  ELSE IF Visitors[v].isBlacklisted
  THEN Response("create", 403, "Visitor is blacklisted and cannot make requests")
  ELSE IF m \notin DOMAIN Members \/ ~Members[m].isActive
  THEN Response("create", 404, "Member not found")
  ELSE IF ~\E mc \in Members[m].companies : mc.company = c /\ mc.isActive
  THEN Response("create", 400, "Member does not belong to this company")
  ELSE IF {i \in Ids : /\ requests[i].visitor = v /\ requests[i].member = m
                       /\ requests[i].company = c /\ requests[i].status = "pending"} # {}
  THEN Response("create", 400, "You already have a pending request with this member")
  ELSE Response("create", 0, "")

\* the validations of the create handler, in the order of the code; the
\* result is the error response, or code 0 when every guard passes
CreateGuard(v, c, m) ==
  IF v \notin DOMAIN Visitors
  THEN Response("create", 404, "Visitor not found")
  ELSE IF Visitors[v].isBlacklisted
  THEN Response("create", 403, "Visitor is blacklisted and cannot make requests")
  ELSE IF c \notin DOMAIN Companies \/ ~Companies[c].isActive
  THEN Response("create", 404, "Company not found")
  ELSE IF m \notin DOMAIN Members \/ ~Members[m].isActive
  THEN Response("create", 404, "Member not found")
  ELSE IF ~\E mc \in Members[m].companies : mc.company = c /\ mc.isActive
  THEN Response("create", 400, "Member does not belong to this company")
  ELSE IF ExistingRequest(v, m, c) # {}
  THEN Response("create", 400, "You already have a pending request with this member")
  ELSE Response("create", 0, "")

\* requests not yet inserted by a create in flight
CreatesInFlight ==
  Cardinality({h \in Handlers : handlers[h].op = "create" /\ handlers[h].rid = 0})

\* POST / up to the call of request.save(): the guards, new Request(...), and
\* the timestamp the store's pre-save hook puts on the new document
CreateUpTo(cap, h, v, c, m, st) ==
  /\ handlers[h].op = "idle"
  /\ LET g == CreateGuard(v, c, m) IN
       IF g.code # 0
       THEN /\ resp' = g
            /\ UNCHANGED handlers
       ELSE /\ Len(requests) + CreatesInFlight < cap
            /\ handlers' = [handlers EXCEPT ![h] =
                 [Idle EXCEPT !.op = "create", !.pc = "count",
                              !.doc = [NewRequest(v, c, m, st) EXCEPT !.createdAt = now]]]
            /\ resp' = NoResp
  /\ effects' = <<>>
  /\ UNCHANGED <<requests, auditLog, now>>

CreateBegin(h, v, c, m, st) == CreateUpTo(MaxRequests, h, v, c, m, st)

\* -------------------------------------------------- requestCreationLimit
\* rateLimit({ windowMs: 15 min, max: 3 }), the first middleware of POST /
RequestCreationMax == 3

TooManyRequests == "Too many requests from this IP, please try again later."

\* faulty variant of OverLimit: one call more is let through
OverLimitAfterMax(ip) == hits[ip] > RequestCreationMax

\* the limiter's decision for the next call of the address: the call is the
\* (hits + 1)-th of the window, and is refused when that exceeds max
OverLimit(ip) == hits[ip] + 1 > RequestCreationMax

\* POST / from address ip: the limiter counts the call and either answers
\* 429 itself, before validation and the handler, or lets the call through
LimitedCreate(h, ip, v, c, m, st) ==
  IF OverLimit(ip)
  THEN /\ handlers[h].op = "idle"
       /\ resp' = Response("create", 429, TooManyRequests)
       /\ effects' = <<>>
       /\ hits' = [hits EXCEPT ![ip] = IF @ > RequestCreationMax THEN @ ELSE @ + 1]
       /\ UNCHANGED <<requests, auditLog, handlers, now, reached>>
  ELSE /\ CreateUpTo(WindowRequests, h, v, c, m, st)
       /\ hits' = [hits EXCEPT ![ip] = @ + 1]
       /\ reached' = [reached EXCEPT ![ip] = @ + 1]

\* windowMs has passed: the store forgets its counts
WindowElapsed ==
  /\ \E ip \in Ips : hits[ip] > 0
  /\ hits' = [ip \in Ips |-> 0]
  /\ reached' = [ip \in Ips |-> 0]
  /\ resp' = NoResp
  /\ effects' = <<>>
  /\ UNCHANGED <<requests, auditLog, handlers, now>>

\* faulty variant of PreSaveHook: the position of a pending document is
\* computed on every save, not only on the insert
PreSaveHookEverySave(d, isNew) ==
  IF d.status = "pending"
  THEN [d EXCEPT !.queuePosition = CountPendingBefore(d.company, d.createdAt) + 1]
  ELSE d

\* requestSchema.pre('save'): the queue position of a new pending document
PreSaveHook(d, isNew) ==
  IF isNew /\ d.status = "pending"
  THEN [d EXCEPT !.queuePosition = CountPendingBefore(d.company, d.createdAt) + 1]
  ELSE d

\* the first save of POST /: the hook awaits its count before the insert
PreSave(h) ==
  /\ handlers[h].pc = "count"
  /\ handlers' = [handlers EXCEPT ![h].pc = "save",
                                  ![h].doc = PreSaveHook(handlers[h].doc, TRUE)]
  /\ resp' = NoResp
  /\ effects' = <<>>
  /\ UNCHANGED <<requests, auditLog, now>>

\* ------------------------------------------------------- AuditLog.createLog
AuditActionEnum ==
  {"visitor_request_created", "visitor_request_accepted", "visitor_request_declined",
   "visitor_request_cancelled", "visitor_entered", "visitor_exited"}

\* the template string `visitor_request_${action}ed` of PUT /:id/status
StatusAuditAction(action) ==
  CASE action = "accept" -> "visitor_request_accepted"
    [] action = "decline" -> "visitor_request_declineed"
    [] OTHER -> "visitor_request_rescheduleed"

\* createLog: the record is stored when it passes the schema's enum, and the
\* error is swallowed otherwise (of a record, its action and entity are kept)
CreateLog(log, action, rid) ==
  IF action \in AuditActionEnum
  THEN log \cup {[action |-> action, entityId |-> rid]}
  ELSE log

\* the audit action each route passes to createLog
AuditAction(hd) ==
  CASE hd.op = "status" -> StatusAuditAction(hd.action)
    [] hd.op = "force-accept" -> "visitor_request_accepted"
    [] hd.op = "enter" -> "visitor_entered"
    [] hd.op = "exit" -> "visitor_exited"
    [] OTHER -> "visitor_request_cancelled"

SuccessMessage(hd) ==
  CASE hd.op = "create" -> "Request created successfully"
    [] hd.op = "status" -> "Request " \o hd.action \o "ed successfully"
    [] hd.op = "force-accept" -> "Request force accepted successfully"
    [] hd.op = "enter" -> "Visitor marked as entered successfully"
    [] hd.op = "exit" -> "Visitor marked as exited successfully"
    [] OTHER -> "Request cancelled successfully"

\* message of the catch block of each route
FailureMessage(op) ==
  CASE op = "create" -> "Failed to create request"
    [] op = "status" -> "Failed to update request status"
    [] op = "force-accept" -> "Failed to force accept request"
    [] op = "enter" -> "Failed to mark visitor as entered"
    [] op = "exit" -> "Failed to mark visitor as exited"
    [] OTHER -> "Failed to cancel request"

\* ------------------------------------------------- side effects of a call
\* an attempted side effect and its outcome: sendEmail and sendSMS return
\* { success: false } when the transport is not configured or throws
Effect(kind, rid, tag) == [kind |-> kind, rid |-> rid, tag |-> tag, ok |-> TRUE]

\* notifyMemberOfVisitorRequest: the channels the member opted in to
NotifyMemberOfVisitorRequest(m, rid) ==
  (IF Members[m].preferences.emailNotifications
   THEN <<Effect("email", rid, "new-request")>> ELSE <<>>)
  \o (IF Members[m].preferences.smsNotifications
      THEN <<Effect("sms", rid, "new-request")>> ELSE <<>>)

\* notifyVisitorOfStatusUpdate: nothing is sent for a status that has no
\* template; the email needs an address on the populated visitor
NotifyVisitorOfStatusUpdate(status, hasEmail, rid) ==
  IF status \notin {"accepted", "declined", "completed"}
  THEN <<>>
  ELSE (IF hasEmail THEN <<Effect("email", rid, status)>> ELSE <<>>)
       \o <<Effect("sms", rid, status)>>

\* the notifier call of each route; PUT /:id/exit populates the visitor
\* without its email, PUT /:id/enter and PUT /:id/cancel call no notifier
Notified(hd) ==
  CASE hd.op = "create" -> NotifyMemberOfVisitorRequest(hd.doc.member, hd.rid)
    [] hd.op \in {"status", "force-accept"} ->
         NotifyVisitorOfStatusUpdate(hd.doc.status, Visitors[hd.doc.visitor].email, hd.rid)
    [] hd.op = "exit" -> NotifyVisitorOfStatusUpdate(hd.doc.status, FALSE, hd.rid)
    [] OTHER -> <<>>

\* the record createLog stores for the route, if it stores one
Audited(hd) ==
  IF hd.op # "create" /\ AuditAction(hd) \in AuditActionEnum
  THEN <<Effect("audit", hd.rid, AuditAction(hd))>>
  ELSE <<>>

\* io.to(room).emit(...): the events of each route
Emitted(hd) ==
  CASE hd.op = "create" -> <<Effect("emit", hd.rid, "new-request"),
                             Effect("emit", hd.rid, "new")>>
    [] hd.op = "status" -> <<Effect("emit", hd.rid, "status-change")>>
    [] hd.op = "enter" -> <<Effect("emit", hd.rid, "entry")>>
    [] hd.op = "exit" -> <<Effect("emit", hd.rid, "exit")>>
    [] hd.op = "cancel" -> <<Effect("emit", hd.rid, "cancelled")>>
    [] OTHER -> <<>>

\* the results sendEmail and sendSMS hand back for the attempted messages
Delivery(effs, emailOk, smsOk) ==
  [k \in DOMAIN effs |->
     [effs[k] EXCEPT !.ok = IF effs[k].kind = "email" THEN emailOk ELSE smsOk]]

\* faulty variant of Answer: the socket events are emitted first
AnswerEmitFirst(hd) ==
  /\ auditLog' = IF hd.op = "create" THEN auditLog
                 ELSE CreateLog(auditLog, AuditAction(hd), hd.rid)
  /\ effects' = Emitted(hd) \o Notified(hd) \o Audited(hd)
  /\ resp' = Response(hd.op, IF hd.op = "create" THEN 201 ELSE 200, SuccessMessage(hd))

\* faulty variant of Answer: a failed delivery or a failed audit write is
\* thrown to the catch block of the route
AnswerThrowsOnFailure(hd) ==
  \E emailOk, smsOk \in BOOLEAN :
    /\ auditLog' = IF hd.op = "create" THEN auditLog
                   ELSE CreateLog(auditLog, AuditAction(hd), hd.rid)
    /\ effects' = Delivery(Notified(hd), emailOk, smsOk) \o Audited(hd) \o Emitted(hd)
    /\ resp' = IF /\ \A k \in DOMAIN effects' : effects'[k].ok
                  /\ hd.op # "create" => AuditAction(hd) \in AuditActionEnum
               THEN Response(hd.op, IF hd.op = "create" THEN 201 ELSE 200,
                             SuccessMessage(hd))
               ELSE Response(hd.op, 500, FailureMessage(hd.op))

\* what follows the save: the notifier, the audit record (every route but
\* POST /), the socket events and the answer. The mail transport and the SMS
\* client may each fail, and the notifier then returns a failed result; the
\* audit write fails on an action outside the enum, and createLog swallows
\* the error; the route goes on in every case
Answer(hd) ==
  \E emailOk, smsOk \in BOOLEAN :
    /\ auditLog' = IF hd.op = "create" THEN auditLog
                   ELSE CreateLog(auditLog, AuditAction(hd), hd.rid)
    /\ effects' = Delivery(Notified(hd), emailOk, smsOk) \o Audited(hd) \o Emitted(hd)
    /\ resp' = Response(hd.op, IF hd.op = "create" THEN 201 ELSE 200, SuccessMessage(hd))

\* await request.save(): the insert of a new document, or the update of the
\* modified paths of a loaded one; a validation error goes to the catch block.
\* POST / and PUT /:id/status go on to their notification bookkeeping, the
\* other routes write their audit record and answer
Save(h) ==
  /\ handlers[h].pc = "save"
  /\ LET hd == handlers[h] IN
       IF ~Validates(hd.doc)
       THEN /\ resp' = Response(hd.op, 500, FailureMessage(hd.op))
            /\ handlers' = [handlers EXCEPT ![h] = Idle]
            /\ effects' = <<>>
            /\ UNCHANGED <<requests, auditLog>>
       ELSE IF hd.rid = 0
       THEN /\ requests' = Append(requests, hd.doc)
            /\ handlers' = [handlers EXCEPT ![h].pc = "notify",
                                            ![h].rid = Len(requests) + 1,
                                            ![h].loaded = hd.doc]
            /\ resp' = NoResp
            /\ effects' = <<>>
            /\ UNCHANGED auditLog
       ELSE /\ requests' = [requests EXCEPT ![hd.rid] =
                               WriteModified(requests[hd.rid], hd.loaded,
                                             PreSaveHook(hd.doc, FALSE),
                                             hd.op \in {"status", "force-accept"})]
            /\ IF hd.op = "status"
               THEN /\ handlers' = [handlers EXCEPT ![h].pc = "notify",
                                                    ![h].loaded = hd.doc]
                    /\ resp' = NoResp
                    /\ effects' = <<>>
                    /\ UNCHANGED auditLog
               ELSE /\ handlers' = [handlers EXCEPT ![h] = Idle]
                    /\ Answer(hd)
  /\ UNCHANGED now

\* the notification bookkeeping of POST / and PUT /:id/status: after the
\* notifier returned, set the flag and save again; then the audit record and
\* the answer
NotifySave(h) ==
  /\ handlers[h].pc = "notify"
  /\ LET hd == handlers[h]
         d  == IF hd.op = "create"
               THEN [hd.doc EXCEPT !.notifications.sentToMember = TRUE]
               ELSE [hd.doc EXCEPT !.notifications.sentToVisitor = TRUE]
     IN /\ requests' = [requests EXCEPT ![hd.rid] =
                           WriteModified(requests[hd.rid], hd.loaded,
                                         PreSaveHook(d, FALSE), FALSE)]
        /\ Answer(hd)
  /\ handlers' = [handlers EXCEPT ![h] = Idle]
  /\ UNCHANGED now

\* a handler that loaded request rid and is about to save document d
Loaded(op, rid, action, d) ==
  [Idle EXCEPT !.op = op, !.pc = "save", !.rid = rid,
               !.loaded = requests[rid], !.doc = d, !.action = action]

\* ----------------------------------------------------- PUT /:id/status
\* faulty variant of StatusGuard: the status of the request is not checked
StatusGuardNoPendingCheck(rid, caller, action, proposedTime) ==
  IF caller.userType # "member"
  THEN Response("status", 403, "Access denied. Member privileges required.")
  ELSE IF action \notin {"accept", "decline", "reschedule"}
  THEN Response("status", 400, "Invalid action. Must be accept, decline, or reschedule")
  ELSE IF rid \notin Ids
  THEN Response("status", 404, "Request not found")
  ELSE IF caller.id # requests[rid].member
  THEN Response("status", 403, "Access denied")
  ELSE IF action = "reschedule" /\ proposedTime = Null
  THEN Response("status", 400, "Proposed time is required for rescheduling")
  ELSE Response("status", 0, "")

\* the guards of the member response, in the order of memberOnly and the
\* route; code 0 when every guard passes
StatusGuard(rid, caller, action, proposedTime) ==
  IF caller.userType # "member"
  THEN Response("status", 403, "Access denied. Member privileges required.")
  ELSE IF action \notin {"accept", "decline", "reschedule"}
  THEN Response("status", 400, "Invalid action. Must be accept, decline, or reschedule")
  ELSE IF rid \notin Ids
  THEN Response("status", 404, "Request not found")
  ELSE IF caller.id # requests[rid].member
  THEN Response("status", 403, "Access denied")
  ELSE IF requests[rid].status # "pending"
  THEN Response("status", 400, "Request is no longer pending")
  ELSE IF action = "reschedule" /\ proposedTime = Null
  THEN Response("status", 400, "Proposed time is required for rescheduling")
  ELSE Response("status", 0, "")

\* faulty variant of StatusUpdate: a reschedule leaves scheduledTime alone
StatusUpdateKeepsSchedule(r, action, message, proposedTime) ==
  [r EXCEPT
    !.status = CASE action = "accept" -> "accepted"
                 [] action = "decline" -> "declined"
                 [] OTHER -> "pending",
    !.memberResponse = [action |-> action, message |-> message,
                        proposedTime |-> proposedTime],
    !.entryDetails.allowedAt = IF action = "accept" THEN now ELSE @]

\* the document PUT /:id/status saves
StatusUpdate(r, action, message, proposedTime) ==
  [r EXCEPT
    !.status = CASE action = "accept" -> "accepted"
                 [] action = "decline" -> "declined"
                 [] OTHER -> "pending",
    !.scheduledTime = IF action = "reschedule" THEN proposedTime ELSE @,
    !.memberResponse = [action |-> action, message |-> message,
                        proposedTime |-> proposedTime],
    !.entryDetails.allowedAt = IF action = "accept" THEN now ELSE @]

MemberRespondBegin(h, rid, caller, action, message, proposedTime) ==
  /\ handlers[h].op = "idle"
  /\ LET g == StatusGuard(rid, caller, action, proposedTime) IN
       IF g.code # 0
       THEN /\ resp' = g
            /\ UNCHANGED handlers
       ELSE /\ handlers' = [handlers EXCEPT ![h] =
                 Loaded("status", rid, action,
                        StatusUpdate(requests[rid], action, message, proposedTime))]
            /\ resp' = NoResp
  /\ effects' = <<>>
  /\ UNCHANGED <<requests, auditLog, now>>

\* ------------------------------------- PUT /admin/requests/:id/force-accept
\* faulty variant of ForceAcceptGuard: every admin may force-accept
ForceAcceptGuardAnyAdmin(rid, caller) ==
  IF caller.userType # "admin"
  THEN Response("force-accept", 403, "Access denied. Admin privileges required.")
  ELSE IF rid \notin Ids
  THEN Response("force-accept", 404, "Request not found")
  ELSE IF requests[rid].status # "pending"
  THEN Response("force-accept", 400, "Request is no longer pending")
  ELSE Response("force-accept", 0, "")

ForceAcceptGuard(rid, caller) ==
  IF caller.userType # "admin"
  THEN Response("force-accept", 403, "Access denied. Admin privileges required.")
  ELSE IF ~(Admins[caller.id].role = "super_admin"
            \/ Admins[caller.id].permissions.manageRequests)
  THEN Response("force-accept", 403, "Access denied. manageRequests permission required.")
  ELSE IF rid \notin Ids
  THEN Response("force-accept", 404, "Request not found")
  ELSE IF requests[rid].status # "pending"
  THEN Response("force-accept", 400, "Request is no longer pending")
  ELSE Response("force-accept", 0, "")

ForceAcceptUpdate(r) ==
  [r EXCEPT
    !.status = "accepted",
    !.memberResponse = [action |-> "accept", message |-> "Force accepted by admin",
                        proposedTime |-> Null],
    !.entryDetails.allowedAt = now]

ForceAcceptBegin(h, rid, caller) ==
  /\ handlers[h].op = "idle"
  /\ LET g == ForceAcceptGuard(rid, caller) IN
       IF g.code # 0
       THEN /\ resp' = g
            /\ UNCHANGED handlers
       ELSE /\ handlers' = [handlers EXCEPT ![h] =
                 Loaded("force-accept", rid, "accept",
                        ForceAcceptUpdate(requests[rid]))]
            /\ resp' = NoResp
  /\ effects' = <<>>
  /\ UNCHANGED <<requests, auditLog, now>>

\* ------------------------------------------------------ PUT /:id/enter
\* faulty variant of EnterGuard: the status of the request is not checked
EnterGuardNoStatusCheck(rid, caller) ==
  IF caller.userType # "admin"
  THEN Response("enter", 403, "Access denied. Admin privileges required.")
  ELSE IF rid \notin Ids
  THEN Response("enter", 404, "Request not found")
  ELSE IF requests[rid].entryDetails.enteredAt # Null
  THEN Response("enter", 400, "Visitor has already been marked as entered")
  ELSE Response("enter", 0, "")

EnterGuard(rid, caller) ==
  IF caller.userType # "admin"
  THEN Response("enter", 403, "Access denied. Admin privileges required.")
  ELSE IF rid \notin Ids
  THEN Response("enter", 404, "Request not found")
  ELSE IF requests[rid].status # "accepted"
  THEN Response("enter", 400, "Request must be accepted before marking entry")
  ELSE IF requests[rid].entryDetails.enteredAt # Null
  THEN Response("enter", 400, "Visitor has already been marked as entered")
  ELSE Response("enter", 0, "")

EnterUpdate(r, entryGate, securityPersonnel) ==
  [r EXCEPT
    !.entryDetails.enteredAt = now,
    !.entryDetails.entryGate = entryGate,
    !.entryDetails.securityPersonnel = securityPersonnel,
    !.status = "in-progress"]

MarkEnteredBegin(h, rid, caller, entryGate, securityPersonnel) ==
  /\ handlers[h].op = "idle"
  /\ LET g == EnterGuard(rid, caller) IN
       IF g.code # 0
       THEN /\ resp' = g
            /\ UNCHANGED handlers
       ELSE /\ handlers' = [handlers EXCEPT ![h] =
                 Loaded("enter", rid, NoString,
                        EnterUpdate(requests[rid], entryGate, securityPersonnel))]
            /\ resp' = NoResp
  /\ effects' = <<>>
  /\ UNCHANGED <<requests, auditLog, now>>

\* ------------------------------------------------------- PUT /:id/exit
\* faulty variant of ExitGuard: enteredAt is not checked
ExitGuardNoEnteredCheck(rid, caller) ==
  IF caller.userType # "admin"
  THEN Response("exit", 403, "Access denied. Admin privileges required.")
  ELSE IF rid \notin Ids
  THEN Response("exit", 404, "Request not found")
  ELSE IF requests[rid].entryDetails.exitedAt # Null
  THEN Response("exit", 400, "Visitor has already been marked as exited")
  ELSE Response("exit", 0, "")

\* faulty variant of ExitGuard: allowedAt is read in place of enteredAt
ExitGuardAllowedAsEntered(rid, caller) ==
  IF caller.userType # "admin"
  THEN Response("exit", 403, "Access denied. Admin privileges required.")
  ELSE IF rid \notin Ids
  THEN Response("exit", 404, "Request not found")
  ELSE IF requests[rid].entryDetails.allowedAt = Null
  THEN Response("exit", 400, "Visitor must be marked as entered before marking exit")
  ELSE IF requests[rid].entryDetails.exitedAt # Null
  THEN Response("exit", 400, "Visitor has already been marked as exited")
  ELSE Response("exit", 0, "")

ExitGuard(rid, caller) ==
  IF caller.userType # "admin"
  THEN Response("exit", 403, "Access denied. Admin privileges required.")
  ELSE IF rid \notin Ids
  THEN Response("exit", 404, "Request not found")
  ELSE IF requests[rid].entryDetails.enteredAt = Null
  THEN Response("exit", 400, "Visitor must be marked as entered before marking exit")
  ELSE IF requests[rid].entryDetails.exitedAt # Null
  THEN Response("exit", 400, "Visitor has already been marked as exited")
  ELSE Response("exit", 0, "")

ExitUpdate(r) ==
  [r EXCEPT !.entryDetails.exitedAt = now, !.status = "completed"]

MarkExitedBegin(h, rid, caller) ==
  /\ handlers[h].op = "idle"
  /\ LET g == ExitGuard(rid, caller) IN
       IF g.code # 0
       THEN /\ resp' = g
            /\ UNCHANGED handlers
       ELSE /\ handlers' = [handlers EXCEPT ![h] =
                 Loaded("exit", rid, NoString, ExitUpdate(requests[rid]))]
            /\ resp' = NoResp
  /\ effects' = <<>>
  /\ UNCHANGED <<requests, auditLog, now>>

\* ----------------------------------------------------- PUT /:id/cancel
\* faulty variant of CanCancel: every member may cancel
CanCancelAnyMember(caller, r) ==
  \/ caller.userType = "admin"
  \/ caller.userType = "member"

CanCancel(caller, r) ==
  \/ caller.userType = "admin"
  \/ caller.userType = "member" /\ caller.id = r.member

CancelGuard(rid, caller) ==
  IF rid \notin Ids
  THEN Response("cancel", 404, "Request not found")
  ELSE IF ~CanCancel(caller, requests[rid])
  THEN Response("cancel", 403, "Access denied")
  ELSE IF requests[rid].status \in {"completed", "cancelled"}
  THEN Response("cancel", 400, "Request cannot be cancelled")
  ELSE Response("cancel", 0, "")

CancelUpdate(r) == [r EXCEPT !.status = "cancelled"]

CancelBegin(h, rid, caller) ==
  /\ handlers[h].op = "idle"
  /\ LET g == CancelGuard(rid, caller) IN
       IF g.code # 0
       THEN /\ resp' = g
            /\ UNCHANGED handlers
       ELSE /\ handlers' = [handlers EXCEPT ![h] =
                 Loaded("cancel", rid, NoString, CancelUpdate(requests[rid]))]
            /\ resp' = NoResp
  /\ effects' = <<>>
  /\ UNCHANGED <<requests, auditLog, now>>

\* ------------------------------------------------ GET /queue/:companyId
\* Request.find({company, status: 'pending'})
PendingOf(c) == {i \in Ids : requests[i].company = c /\ requests[i].status = "pending"}

\* the order .sort({priority: -1, createdAt: 1}) allows between two documents
SortsBefore(a, b) ==
  \/ a.priority > b.priority
  \/ a.priority = b.priority /\ a.createdAt <= b.createdAt

\* every result the find can return: the pending requests of the company in
\* an order the sort allows (the store fixes no order between equal keys)
FindPendingSorted(c) ==
  {q \in [1..Cardinality(PendingOf(c)) -> PendingOf(c)] :
     /\ \A i, j \in DOMAIN q : i # j => q[i] # q[j]
     /\ \A i, j \in DOMAIN q : i < j => SortsBefore(requests[q[i]], requests[q[j]])}

\* faulty variant of QueueData: the wait is 15 minutes times the position
QueueDataWaitByPosition(q) ==
  [index \in DOMAIN q |->
    [id |-> q[index], position |-> index, estimatedWaitTime |-> index * 15,
     createdAt |-> requests[q[index]].createdAt]]

\* pendingRequests.map((request, index) => ...)
QueueData(q) ==
  [index \in DOMAIN q |->
    [id |-> q[index], position |-> index, estimatedWaitTime |-> (index - 1) * 15,
     createdAt |-> requests[q[index]].createdAt]]

QueueResponse(c, q) ==
  [op |-> "queue", code |-> 200, message |-> "", companyId |-> c,
   queue |-> QueueData(q), totalPending |-> Len(q), estimatedWaitTime |-> Len(q) * 15]

GetQueue(c) ==
  /\ IF c \notin DOMAIN Companies \/ ~Companies[c].isActive
     THEN resp' = Response("queue", 404, "Company not found")
     ELSE \E q \in FindPendingSorted(c) : resp' = QueueResponse(c, q)
  /\ effects' = <<>>
  /\ UNCHANGED <<requests, auditLog, handlers, now>>

\* ------------------------------------------------------- specification
ScheduledTimes == {Null}
\* request bodies of PUT /:id/status
StatusBodies ==
  {[action |-> "accept", message |-> NoMessage, proposedTime |-> Null],
   [action |-> "decline", message |-> "busy today", proposedTime |-> Null],
   [action |-> "reschedule", message |-> NoMessage, proposedTime |-> 8],
   [action |-> "reschedule", message |-> NoMessage, proposedTime |-> Null],
   [action |-> "approve", message |-> NoMessage, proposedTime |-> Null]}
RequestIds == 1..MaxRequests

\* the HTTP calls handler slot h can start, with ids, callers and bodies drawn
\* from the given sets
Begin(h, V, C, M, CL, B) ==
  \/ \E v \in V, c \in C, m \in M, st \in ScheduledTimes : CreateBegin(h, v, c, m, st)
  \/ \E rid \in RequestIds, caller \in CL, body \in B :
       MemberRespondBegin(h, rid, caller, body.action, body.message, body.proposedTime)
  \/ \E rid \in RequestIds, caller \in CL : ForceAcceptBegin(h, rid, caller)
  \/ \E rid \in RequestIds, caller \in CL :
       MarkEnteredBegin(h, rid, caller, "North", "guard-1")
  \/ \E rid \in RequestIds, caller \in CL : MarkExitedBegin(h, rid, caller)
  \/ \E rid \in RequestIds, caller \in CL : CancelBegin(h, rid, caller)

Step(h) ==
  \/ PreSave(h)
  \/ Save(h)
  \/ NotifySave(h)

\* concurrent calls: two handlers interleave at their awaits; the calls are
\* those of two members and an admin on the requests of visitor v1 to member m1
\* at company c1
RaceCallers == {c \in Callers : c.id \in {"m1", "m2", "aSuper"}}
RaceBodies == {b \in StatusBodies : b.action \in ActionEnum /\ b.proposedTime = Null => b.action # "reschedule"}

\* a call that passes its guards occupies its handler slot
Started(h) == handlers[h].op = "idle" /\ handlers'[h].op # "idle"

\* the create that starts in slot h overlaps a create of the same triple
CreateOverlap(h) ==
  /\ Started(h)
  /\ handlers'[h].op = "create"
  /\ \E g \in Handlers \ {h} :
       /\ handlers[g].op = "create" /\ handlers[g].rid = 0
       /\ handlers[g].doc.visitor = handlers'[h].doc.visitor
       /\ handlers[g].doc.member = handlers'[h].doc.member
       /\ handlers[g].doc.company = handlers'[h].doc.company

Race(h) ==
  /\ Begin(h, {"v1"}, {"c1"}, {"m1"}, RaceCallers, RaceBodies)
  /\ IF Started(h)
     THEN calls < MaxCalls /\ calls' = calls + 1
     ELSE UNCHANGED calls
  /\ raced' = (raced \/ CreateOverlap(h))
  /\ UNCHANGED limiter

history == <<calls, raced>>

Next ==
  \/ Sent /\ UNCHANGED <<history, limiter>>
  \/ Quiet /\ Tick /\ UNCHANGED <<history, limiter>>
  \/ \E c \in {"c1"} : Quiet /\ GetQueue(c) /\ UNCHANGED <<history, limiter>>
  \/ \E h \in Handlers : Quiet /\ Race(h)
  \/ \E h \in Handlers : Quiet /\ Step(h) /\ UNCHANGED <<history, limiter>>

Spec == Init /\ [][Next]_vars

\* one HTTP call at a time: every call runs in the same handler slot, with
\* every id, caller and body
SeqNext ==
  \/ Sent /\ UNCHANGED <<history, limiter>>
  \/ Quiet /\ Tick /\ UNCHANGED <<history, limiter>>
  \/ \E c \in CompanyIds : Quiet /\ GetQueue(c) /\ UNCHANGED <<history, limiter>>
  \/ Quiet /\ Begin("h1", VisitorIds, CompanyIds, MemberIds, Callers, StatusBodies)
       /\ UNCHANGED <<history, limiter>>
  \/ Quiet /\ Step("h1") /\ UNCHANGED <<history, limiter>>

SeqSpec == Init /\ [][SeqNext]_vars

\* the public endpoint behind its rate limiter: visitor v1 and unknown
\* visitors ask for members m1 and m2 at company c1 from two addresses, an
\* admin cancels, one call at a time (POST / in Spec and SeqSpec is a call
\* that the limiter let through)
LimitNext ==
  \/ Sent /\ UNCHANGED <<history, limiter>>
  \/ Quiet /\ TickTo(WindowTime) /\ UNCHANGED <<history, limiter>>
  \/ Quiet /\ WindowElapsed /\ UNCHANGED history
  \/ \E ip \in Ips, v \in {"v1", "vNone"}, m \in {"m1", "m2"} :
       Quiet /\ LimitedCreate("h1", ip, v, "c1", m, Null) /\ UNCHANGED history
  \/ \E rid \in 1..WindowRequests :
       Quiet /\ CancelBegin("h1", rid, [userType |-> "admin", id |-> "aSuper"])
             /\ UNCHANGED <<history, limiter>>
  \/ Quiet /\ Step("h1") /\ UNCHANGED <<history, limiter>>

LimitSpec == Init /\ [][LimitNext]_vars

\* ---------------------------------------------------------------- claims
Terminal == {"completed", "declined", "cancelled", "expired"}

\* C1: no operation changes the status of a request whose persisted status is
\* terminal (completed, declined, cancelled or expired).
C1_TerminalStatusNeverChanges ==
  [][\A i \in Ids : requests[i].status \in Terminal
                      => requests'[i].status = requests[i].status]_vars

\* the save of handler slot h is the step from s to s'
Saves(h, op) ==
  /\ handlers[h].op = op
  /\ handlers[h].pc = "save"
  /\ handlers'[h].pc # "save"

\* C2: on the happy path every step succeeds: the member's accept persists
\* accepted, markEntered on the accepted request persists in-progress and
\* enteredAt, markExited then persists completed and exitedAt.
C2_HappyPathSucceeds ==
  [][\A h \in Handlers :
       /\ (Saves(h, "status") /\ handlers[h].action = "accept"
             /\ requests[handlers[h].rid].status = "pending")
            => requests'[handlers[h].rid].status = "accepted"
       /\ (Saves(h, "enter") /\ requests[handlers[h].rid].status = "accepted")
            => /\ resp'.code = 200
               /\ requests'[handlers[h].rid].status = "in-progress"
               /\ requests'[handlers[h].rid].entryDetails.enteredAt # Null
       /\ (Saves(h, "exit") /\ requests[handlers[h].rid].status = "in-progress")
            => /\ resp'.code = 200
               /\ requests'[handlers[h].rid].status = "completed"
               /\ requests'[handlers[h].rid].entryDetails.exitedAt # Null]_vars

\* the pending requests of a (visitor, member, company) triple
PendingFor(v, m, c) ==
  {i \in Ids : /\ requests[i].visitor = v /\ requests[i].member = m
               /\ requests[i].company = c /\ requests[i].status = "pending"}

ConflictCodes == {400, 409}

DuplicateMessage == "You already have a pending request with this member"

\* C3: when a create for (V, M, C) has completed and that request is still
\* pending, a later create for the same triple is answered with a conflict
\* error and stores no request: the triple keeps exactly one pending request.
C3_SequentialDuplicateRejected ==
  /\ [](\A v \in DOMAIN Visitors, c \in DOMAIN Companies, m \in DOMAIN Members :
          PendingFor(v, m, c) # {}
            => /\ CreateGuard(v, c, m).code \in ConflictCodes
               /\ CreateGuard(v, c, m).message = DuplicateMessage
               /\ Cardinality(PendingFor(v, m, c)) = 1)
  /\ [][(resp'.op = "create" /\ resp'.message = DuplicateMessage)
          => /\ resp'.code \in ConflictCodes
             /\ requests' = requests
             /\ handlers' = handlers]_vars

\* C3 witness: the second create of a triple was answered with the conflict
\* while the first request of the triple is pending
C3_Witness ==
  /\ resp.op = "create"
  /\ resp.message = DuplicateMessage
  /\ \E i \in Ids : requests[i].status = "pending" /\ requests[i].notifications.sentToMember

\* C4: in every reachable state at most one request of a (visitor, member,
\* company) triple is pending, also when create handlers interleave.
C4_OnePendingPerTriple ==
  \A v \in DOMAIN Visitors, c \in DOMAIN Companies, m \in DOMAIN Members :
    Cardinality(PendingFor(v, m, c)) <= 1

\* C4 amended: at most one request of a triple is pending in every reachable
\* state in which no create passed its duplicate check while another create of
\* the same triple was between its check and its insert; two creates that
\* overlap in that way are both stored as pending.
C4_OnePendingUnlessCreatesOverlapped ==
  ~raced =>
    \A i, j \in Ids :
      (/\ i # j
       /\ requests[i].status = "pending" /\ requests[j].status = "pending"
       /\ requests[i].visitor = requests[j].visitor
       /\ requests[i].member = requests[j].member)
        => requests[i].company # requests[j].company

\* C4 witness: without overlapping creates, a triple has a pending request
\* next to an earlier request of the same triple that left pending, and a
\* create of the triple has just been refused
C4_Witness ==
  /\ ~raced
  /\ resp.message = DuplicateMessage
  /\ \E i, j \in Ids :
       /\ i # j
       /\ requests[i].visitor = requests[j].visitor
       /\ requests[i].member = requests[j].member
       /\ requests[i].company = requests[j].company
       /\ requests[i].status # "pending" /\ requests[j].status = "pending"

\* C5: when creates do not interleave, the queuePosition stored on a new
\* request is 1 + the number of requests of its company that are pending at
\* that moment with a strictly earlier createdAt (1 when there is none).
C5_QueuePositionAtCreation ==
  [][Len(requests') = Len(requests) + 1
       => LET r == requests'[Len(requests')] IN
            r.queuePosition =
              1 + Cardinality({i \in Ids : /\ requests[i].company = r.company
                                           /\ requests[i].status = "pending"
                                           /\ requests[i].createdAt < r.createdAt})]_vars

\* C5 witness: a request was created second in its company's queue, behind a
\* request that is pending
C5_Witness ==
  /\ Len(requests) = 2
  /\ requests[1].company = requests[2].company
  /\ requests[1].status = "pending"
  /\ requests[2].queuePosition = 2

\* C6: the queuePosition of a request never changes after the save that
\* created it, whatever operation runs later on it or on another request.
C6_QueuePositionNeverChanges ==
  [][\A i \in Ids : requests'[i].queuePosition = requests[i].queuePosition]_vars

\* C6 witness: a request queued second keeps its position 2 after the request
\* ahead of it left pending and it was itself answered by its member
C6_Witness ==
  \E i, j \in Ids :
    /\ requests[i].company = requests[j].company
    /\ requests[i].status = "cancelled"
    /\ requests[j].queuePosition = 2
    /\ requests[j].notifications.sentToVisitor
    /\ requests[j].memberResponse.action = "reschedule"

\* C7: the queue view of an active company holds exactly the pending requests
\* of the company, by priority descending then createdAt ascending, with
\* position = 1-based index, estimatedWaitTime = 15 x (position - 1) and
\* totalPending = number of entries.
C7_LiveQueueView ==
  (resp.op = "queue" /\ resp.code = 200) =>
    LET q == resp.queue
        c == resp.companyId IN
      /\ {q[k].id : k \in DOMAIN q} =
           {i \in Ids : requests[i].company = c /\ requests[i].status = "pending"}
      /\ \A k, l \in DOMAIN q : k # l => q[k].id # q[l].id
      /\ \A k, l \in DOMAIN q :
           k < l => \/ requests[q[k].id].priority > requests[q[l].id].priority
                    \/ /\ requests[q[k].id].priority = requests[q[l].id].priority
                       /\ requests[q[k].id].createdAt <= requests[q[l].id].createdAt
      /\ \A k \in DOMAIN q :
           q[k].position = k /\ q[k].estimatedWaitTime = 15 * (q[k].position - 1)
      /\ resp.totalPending = Len(q)

\* C7 witness: a queue view with two entries, the earlier request first and
\* the second one with a wait of 15 minutes
C7_Witness ==
  /\ resp.op = "queue" /\ resp.code = 200
  /\ Len(resp.queue) = 2
  /\ resp.queue[1].createdAt < resp.queue[2].createdAt
  /\ resp.queue[2].estimatedWaitTime = 15

\* the errors the claim names for POST /, by the first failing guard; the
\* empty set when every guard passes
CreateErrors(v, c, m, visitorMissing, conflict) ==
  IF v \notin DOMAIN Visitors THEN {visitorMissing}
  ELSE IF Visitors[v].isBlacklisted THEN {403}
  ELSE IF c \notin DOMAIN Companies \/ ~Companies[c].isActive THEN {404}
  ELSE IF m \notin DOMAIN Members \/ ~Members[m].isActive THEN {404}
  ELSE IF [company |-> c, isActive |-> TRUE] \notin Members[m].companies THEN {400}
  ELSE IF PendingFor(v, m, c) # {} THEN conflict
  ELSE {}

\* the guard of POST / answers every input with the error of the first
\* failing check; visitorMissing is the code for a visitor that does not exist
CreateGuardOrder(visitorMissing, conflict) ==
  \A v \in VisitorIds, c \in CompanyIds, m \in MemberIds :
    LET e == CreateErrors(v, c, m, visitorMissing, conflict) IN
      IF e = {} THEN CreateGuard(v, c, m).code = 0
      ELSE CreateGuard(v, c, m).code \in e

\* a create that is answered with an error stores nothing, and a create that
\* goes on passed every check
FailedCreateStoresNothing(visitorMissing, conflict) ==
  /\ (resp'.op = "create" /\ resp'.code # 201)
       => /\ resp'.code \in {400, 403, 404, 409}
          /\ requests' = requests
          /\ handlers' = handlers
  /\ (handlers["h1"].op = "idle" /\ handlers'["h1"].op = "create")
       => LET d == handlers'["h1"].doc IN
            CreateErrors(d.visitor, d.company, d.member, visitorMissing, conflict) = {}

\* C8: create checks visitor, company, member, association, duplicate in that
\* order and reports the first failure: visitor missing or blacklisted 403,
\* company 404, member 404, association 400, duplicate conflict; a failed
\* create stores no request.
C8_CreateGuardOrder ==
  [](CreateGuardOrder(403, ConflictCodes))
    /\ [][FailedCreateStoresNothing(403, ConflictCodes)]_vars

\* C8 amended: as C8, but a visitor that does not exist is answered with
\* NotFound (404), only a blacklisted visitor with Forbidden (403), and an
\* existing pending request of the triple with BadRequest (400).
C8_CreateGuardOrderVisitorNotFound ==
  [](CreateGuardOrder(404, {400}))
    /\ [][FailedCreateStoresNothing(404, {400})]_vars

\* C8 witness: a create for a visitor that does not exist was answered 404
\* while a request is stored
C8_Witness ==
  /\ resp.op = "create"
  /\ resp.code = 404
  /\ resp.message = "Visitor not found"
  /\ Len(requests) = 1

\* C9: a member response takes effect only for the member the request
\* references and a pending request: another member gets 403, a non-pending
\* request 400, an unknown action or a reschedule without proposedTime 400;
\* a refused response changes no field of the request.
C9_MemberResponseGuards ==
  /\ [](\A rid \in Ids, caller \in Callers, body \in StatusBodies :
          caller.userType = "member" =>
            LET g == StatusGuard(rid, caller, body.action, body.proposedTime)
                owner == caller.id = requests[rid].member
                known == body.action \in {"accept", "decline", "reschedule"}
                pending == requests[rid].status = "pending"
                timed == body.action = "reschedule" => body.proposedTime # Null
            IN /\ g.code = 0 <=> (owner /\ known /\ pending /\ timed)
               /\ (known /\ ~owner) => g.code = 403
               /\ (known /\ owner /\ ~pending) => g.code = 400
               /\ ~known => g.code = 400
               /\ (owner /\ pending /\ ~timed) => g.code = 400)
  /\ [][/\ (resp'.op = "status" /\ resp'.code \in {400, 403})
             => requests' = requests /\ handlers' = handlers
        /\ (handlers["h1"].op = "idle" /\ handlers'["h1"].op = "status")
             => LET hd == handlers'["h1"] IN
                  /\ requests[hd.rid].status = "pending"
                  /\ hd.action \in {"accept", "decline", "reschedule"}
                  /\ hd.action = "reschedule" => hd.doc.scheduledTime # Null
                  /\ requests' = requests]_vars

\* C9 witness: the member the request references was refused because the
\* request is no longer pending
C9_Witness ==
  /\ resp.op = "status"
  /\ resp.code = 400
  /\ resp.message = "Request is no longer pending"
  /\ \E i \in Ids : requests[i].status = "declined"

\* C10: a reschedule with proposedTime T on a pending request keeps it
\* pending, sets scheduledTime = T and records the reschedule response; the
\* owning member's further responses are still accepted, and a following
\* accept moves the request to accepted.
C10_RescheduleLoop ==
  /\ [](\A i \in Ids :
          (requests[i].status = "pending" /\ requests[i].memberResponse.action = "reschedule")
            => \A body \in StatusBodies :
                 (body.action \in {"accept", "decline"} \/ body.proposedTime # Null)
                   => StatusGuard(i, [userType |-> "member", id |-> requests[i].member],
                                  body.action, body.proposedTime).code = 0)
  /\ [][\A h \in Handlers :
          LET hd == handlers[h] IN
            /\ (Saves(h, "status") /\ hd.action = "reschedule")
                 => /\ requests'[hd.rid].status = "pending"
                    /\ requests'[hd.rid].scheduledTime = hd.doc.memberResponse.proposedTime
                    /\ requests'[hd.rid].scheduledTime # Null
                    /\ requests'[hd.rid].memberResponse.action = "reschedule"
            /\ (Saves(h, "status") /\ hd.action = "accept"
                  /\ requests[hd.rid].memberResponse.action = "reschedule")
                 => requests'[hd.rid].status = "accepted"]_vars

\* C10 witness: a request that was rescheduled to time 8 and then accepted
C10_Witness ==
  \E i \in Ids :
    /\ requests[i].status = "accepted"
    /\ requests[i].scheduledTime = 8
    /\ requests[i].memberResponse.action = "accept"
    /\ requests[i].notifications.sentToVisitor

\* C11: once a memberResponse with action accept or decline is persisted for a
\* request, no later step changes memberResponse.action, also when responses
\* and a force-accept for the same pending request interleave.
C11_ResponseActionImmutable ==
  [][\A i \in Ids :
       requests[i].memberResponse.action \in {"accept", "decline"}
         => requests'[i].memberResponse.action = requests[i].memberResponse.action]_vars

AdminCallers == {c \in Callers : c.userType = "admin"}

\* C12: a decline with message m on a pending request persists status
\* declined and memberResponse = {decline, m} and leaves allowedAt null; a
\* later markEntered on the declined request is answered 400 and changes
\* nothing.
C12_DeclineThenEnterRejected ==
  /\ [](\A i \in Ids : requests[i].status = "declined"
          => \A caller \in AdminCallers : EnterGuard(i, caller).code = 400)
  /\ [][/\ \A h \in Handlers :
             LET hd == handlers[h] IN
               (Saves(h, "status") /\ hd.action = "decline")
                 => /\ requests'[hd.rid].status = "declined"
                    /\ requests'[hd.rid].memberResponse.action = "decline"
                    /\ requests'[hd.rid].memberResponse.message = "busy today"
                    /\ requests'[hd.rid].memberResponse.message = hd.doc.memberResponse.message
                    /\ requests'[hd.rid].entryDetails.allowedAt = Null
        /\ (resp'.op = "enter" /\ resp'.code = 400)
             => requests' = requests /\ handlers' = handlers]_vars

\* C12 witness: markEntered was refused on the request that was declined with
\* the message "busy today"
C12_Witness ==
  /\ resp.op = "enter"
  /\ resp.code = 400
  /\ Len(requests) = 1
  /\ requests[1].status = "declined"
  /\ requests[1].memberResponse.message = "busy today"
  /\ requests[1].entryDetails.allowedAt = Null

\* C13: the first markEntered on an accepted request succeeds and sets
\* enteredAt; a markEntered on a request whose enteredAt is set is answered
\* 400 and leaves enteredAt as it is.
C13_SecondEnterRejected ==
  /\ [](\A i \in Ids : requests[i].entryDetails.enteredAt # Null
          => \A caller \in AdminCallers : EnterGuard(i, caller).code = 400)
  /\ [][/\ \A h \in Handlers :
             LET hd == handlers[h] IN
               (Saves(h, "enter") /\ requests[hd.rid].status = "accepted"
                  /\ requests[hd.rid].entryDetails.enteredAt = Null)
                 => /\ resp'.code = 200
                    /\ requests'[hd.rid].entryDetails.enteredAt # Null
        /\ \A i \in Ids : requests[i].entryDetails.enteredAt # Null
             => requests'[i].entryDetails.enteredAt = requests[i].entryDetails.enteredAt]_vars

\* C14: in every reachable state of every request, exitedAt is set only if
\* enteredAt is set, and enteredAt is set only if allowedAt is set.
C14_EntryTimestampsOrdered ==
  \A i \in Ids :
    /\ requests[i].entryDetails.exitedAt # Null => requests[i].entryDetails.enteredAt # Null
    /\ requests[i].entryDetails.enteredAt # Null => requests[i].entryDetails.allowedAt # Null

\* C14 witness: markExited was refused on an accepted request that has no
\* enteredAt, and the request has no exitedAt
C14_Witness ==
  /\ resp.op = "exit"
  /\ resp.message = "Visitor must be marked as entered before marking exit"
  /\ \E i \in Ids : /\ requests[i].entryDetails.allowedAt # Null
                    /\ requests[i].entryDetails.enteredAt = Null
                    /\ requests[i].entryDetails.exitedAt = Null

\* C15: markExited succeeds only on a request whose persisted status is
\* in-progress; on a request in any other status it is rejected and leaves
\* status and exitedAt unchanged.
C15_ExitOnlyInProgress ==
  /\ [](\A i \in Ids : requests[i].status # "in-progress"
          => \A caller \in AdminCallers : ExitGuard(i, caller).code \in {400, 409})
  /\ [][/\ \A h \in Handlers :
             (Saves(h, "exit") /\ resp'.code = 200)
               => requests[handlers[h].rid].status = "in-progress"
        /\ (resp'.op = "exit" /\ resp'.code # 200)
             => \A i \in Ids : /\ requests'[i].status = requests[i].status
                               /\ requests'[i].entryDetails.exitedAt =
                                    requests[i].entryDetails.exitedAt]_vars

\* C15 witness: markExited was refused on a cancelled request that had been
\* accepted
C15_Witness ==
  /\ resp.op = "exit"
  /\ resp.code = 400
  /\ Len(requests) = 1
  /\ requests[1].status = "cancelled"
  /\ requests[1].entryDetails.allowedAt # Null
  /\ requests[1].entryDetails.exitedAt = Null

\* the admins checkAdminPermission('manageRequests') lets through
MayManageRequests(caller) ==
  /\ caller.userType = "admin"
  /\ \/ Admins[caller.id].role = "super_admin"
     \/ Admins[caller.id].permissions.manageRequests

\* C16: force-accept takes effect only for an admin that is super_admin or has
\* the manageRequests permission (others get 403) and a pending request
\* (otherwise 400, nothing changed); on success it persists status accepted,
\* memberResponse.action = accept with the message 'Force accepted by admin'
\* and allowedAt, whichever member the request references.
C16_ForceAcceptGuards ==
  /\ [](\A i \in Ids, caller \in Callers :
          LET g == ForceAcceptGuard(i, caller) IN
            /\ g.code = 0 <=> (MayManageRequests(caller) /\ requests[i].status = "pending")
            /\ ~MayManageRequests(caller) => g.code = 403
            /\ (MayManageRequests(caller) /\ requests[i].status # "pending") => g.code = 400)
  /\ [][/\ (resp'.op = "force-accept" /\ resp'.code \in {400, 403})
             => requests' = requests /\ handlers' = handlers
        /\ \A h \in Handlers :
             LET hd == handlers[h] IN
               Saves(h, "force-accept")
                 => /\ resp'.code = 200
                    /\ requests'[hd.rid].status = "accepted"
                    /\ requests'[hd.rid].memberResponse.action = "accept"
                    /\ requests'[hd.rid].memberResponse.message = "Force accepted by admin"
                    /\ requests'[hd.rid].entryDetails.allowedAt # Null]_vars

\* C16 witness: a request of member m2 was force-accepted
C16_Witness ==
  /\ resp.op = "force-accept"
  /\ resp.code = 200
  /\ \E i \in Ids : /\ requests[i].member = "m2"
                    /\ requests[i].status = "accepted"
                    /\ requests[i].memberResponse.message = "Force accepted by admin"
                    /\ requests[i].entryDetails.allowedAt # Null

\* C17: cancel answers 403 to a caller that is neither an admin nor the member
\* of the request, whatever the status; 400 to an authorised caller when the
\* status is completed or cancelled; otherwise the status becomes cancelled
\* and no other field of the request changes.
C17_CancelGuards ==
  /\ [](\A i \in Ids, caller \in Callers :
          LET g == CancelGuard(i, caller)
              authorised == \/ caller.userType = "admin"
                            \/ caller.userType = "member" /\ caller.id = requests[i].member
              closed == requests[i].status \in {"completed", "cancelled"}
          IN /\ ~authorised => g.code = 403
             /\ (authorised /\ closed) => g.code = 400
             /\ (authorised /\ ~closed) => g.code = 0)
  /\ [][/\ (resp'.op = "cancel" /\ resp'.code \in {400, 403})
             => requests' = requests /\ handlers' = handlers
        /\ \A h \in Handlers :
             LET hd == handlers[h] IN
               Saves(h, "cancel")
                 => /\ resp'.code = 200
                    /\ requests' = [requests EXCEPT ![hd.rid].status = "cancelled"]]_vars

\* C17 witness: a request was cancelled after its member had rescheduled it,
\* and keeps the response, the schedule and the notification flags
C17_Witness ==
  /\ resp.op = "cancel"
  /\ resp.code = 200
  /\ \E i \in Ids : /\ requests[i].status = "cancelled"
                    /\ requests[i].memberResponse.action = "reschedule"
                    /\ requests[i].scheduledTime = 8
                    /\ requests[i].notifications.sentToVisitor

\* the step from s to s' ends the PUT /:id/status call of slot h with success
Responded(h) ==
  /\ handlers[h].op = "status"
  /\ handlers[h].pc = "notify"
  /\ handlers'[h].op = "idle"
  /\ resp'.code = 200

\* the audit actions that name a member response
ResponseAuditActions(action) ==
  CASE action = "accept" -> {"visitor_request_accepted"}
    [] action = "decline" -> {"visitor_request_declined", "visitor_request_declineed"}
    [] OTHER -> {"visitor_request_rescheduled", "visitor_request_rescheduleed"}

\* C18: after every successful member response (accept, decline, reschedule)
\* the audit log holds a record for that request and that action.
C18_ResponseAudited ==
  [][\A h \in Handlers :
       Responded(h)
         => \E rec \in auditLog' :
              /\ rec.entityId = handlers[h].rid
              /\ rec.action \in ResponseAuditActions(handlers[h].action)]_vars

\* the step from s to s' attempts a message of the kind to the visitor of rid
Attempted(kind, rid) ==
  \E k \in DOMAIN effects' : effects'[k].kind = kind /\ effects'[k].rid = rid

\* C19: after every successful member response (accept, decline, reschedule)
\* an SMS to the visitor is attempted, and an email when the visitor has one
\* on file; sentToVisitor becomes true only with that attempt.
C19_VisitorNotified ==
  [][\A h \in Handlers :
       LET hd == handlers[h] IN
         Responded(h)
           => /\ Attempted("sms", hd.rid)
              /\ Visitors[hd.doc.visitor].email => Attempted("email", hd.rid)
              /\ requests'[hd.rid].notifications.sentToVisitor]_vars

\* notify, then audit, then broadcast
Rank(kind) ==
  CASE kind \in {"email", "sms"} -> 1
    [] kind = "audit" -> 2
    [] OTHER -> 3

\* C20: the side effects of a lifecycle operation are emitted only by a call
\* whose save has persisted its mutation, and in the order notify, audit,
\* broadcast; a call whose guard or save fails emits none.
C20_EffectsAfterPersist ==
  [][/\ effects' # <<>>
          => /\ resp'.code \in {200, 201}
             /\ \E h \in Handlers :
                  LET hd == handlers[h] IN
                    /\ hd.pc \in {"save", "notify"}
                    /\ handlers'[h].op = "idle"
                    /\ hd.rid \in Ids
                    /\ hd.pc = "save" => /\ Validates(hd.doc)
                                         /\ requests'[hd.rid].status = hd.doc.status
                    /\ \A k \in DOMAIN effects' : effects'[k].rid = hd.rid
             /\ \A k, l \in DOMAIN effects' :
                  k < l => Rank(effects'[k].kind) <= Rank(effects'[l].kind)
     /\ resp'.code \notin {0, 200, 201} => effects' = <<>> /\ auditLog' = auditLog]_vars

\* C20 witness: an accept was answered after its notifications, its audit
\* record and its broadcast, in that order
C20_Witness ==
  /\ resp.op = "status"
  /\ resp.code = 200
  /\ Len(effects) = 4
  /\ effects[1].kind = "email"
  /\ effects[2].kind = "sms"
  /\ effects[3].kind = "audit"
  /\ effects[4].kind = "emit"

\* the fields a lifecycle operation persists
Lifecycle(r) == <<r.status, r.memberResponse, r.scheduledTime, r.entryDetails>>

\* the step from s to s' is the answering step of handler h
Answers(h) ==
  /\ handlers[h].pc \in {"save", "notify"}
  /\ handlers'[h].op = "idle"
  /\ handlers[h].pc = "save" => Validates(handlers[h].doc)

\* the answering step had a delivery fail, or its audit record rejected
SideEffectFailed(h) ==
  \/ \E k \in DOMAIN effects' : ~effects'[k].ok
  \/ /\ handlers[h].op # "create"
     /\ AuditAction(handlers[h]) \notin AuditActionEnum

\* C21: a failed email delivery, SMS delivery or audit write never turns a
\* lifecycle operation into a failure and never undoes it: the call answers
\* success and the persisted lifecycle fields stay as the save wrote them.
C21_SideEffectFailureTolerated ==
  [][\A h \in Handlers :
       LET hd == handlers[h] IN
         Answers(h) /\ SideEffectFailed(h)
           => /\ resp'.code \in {200, 201}
              /\ resp'.message = SuccessMessage(hd)
              /\ hd.pc = "notify"
                   => Lifecycle(requests'[hd.rid]) = Lifecycle(requests[hd.rid])
              /\ hd.pc = "save"
                   => /\ requests'[hd.rid].status = hd.doc.status
                      /\ requests'[hd.rid].memberResponse = hd.doc.memberResponse]_vars

\* C21 witness: a decline was answered with success although the email, the
\* SMS and the audit write all failed, and the request is stored declined
C21_Witness ==
  /\ resp.op = "status"
  /\ resp.code = 200
  /\ Len(effects) = 3
  /\ effects[1].kind = "email" /\ ~effects[1].ok
  /\ effects[2].kind = "sms" /\ ~effects[2].ok
  /\ effects[3].kind = "emit"
  /\ requests[effects[1].rid].status = "declined"
  /\ \A rec \in auditLog : rec.entityId # effects[1].rid

\* C22: within one rate-limit window at most 3 POST / calls of one client
\* address reach the create handler; every further call of that address is
\* answered 429 before validation and creates no Request.
C22_CreateRateLimited ==
  /\ [](\A ip \in Ips : reached[ip] <= 3)
  /\ [][/\ \A ip \in Ips :
            hits[ip] >= 3 /\ hits'[ip] > hits[ip]
              => /\ resp'.code = 429
                 /\ reached'[ip] = reached[ip]
        /\ resp'.code = 429
             => /\ requests' = requests
                /\ handlers' = handlers
                /\ reached' = reached
                /\ effects' = <<>>]_vars

\* C22 witness: three calls of ip1 created three Requests in one window and
\* its fourth call is answered 429, while ip2 has made no call
C22_Witness ==
  /\ resp.code = 429
  /\ reached["ip1"] = 3
  /\ hits["ip1"] = 4
  /\ hits["ip2"] = 0
  /\ Len(requests) = 3

\* C23: the estimatedWaitTime stored on a Request (the value the create call
\* returns) is 15 x (queuePosition - 1), with the queuePosition computed at
\* creation.
C23_StoredWaitTime ==
  \A i \in Ids :
    requests[i].estimatedWaitTime = 15 * (requests[i].queuePosition - 1)

\* C24: under any interleaving of calls on one request, a persisted status
\* cancelled is never overwritten by another status, and the persisted
\* status of a request leaves pending at most once.
C24_CancelledNeverOverwritten ==
  [][\A i \in Ids :
       /\ requests[i].status = "cancelled" => requests'[i].status = "cancelled"
       /\ requests[i].status # "pending" => requests'[i].status # "pending"]_vars

\* the entry values a successful markEntered writes
Entry(r) ==
  <<r.entryDetails.enteredAt, r.entryDetails.entryGate, r.entryDetails.securityPersonnel>>

\* C25: two concurrent markEntered calls on one accepted request cannot both
\* succeed: a markEntered is answered 200 only for a request whose enteredAt
\* was not yet persisted, and the enteredAt, entryGate and securityPersonnel
\* written by a successful call are never overwritten.
C25_ConcurrentEnterWritesOnce ==
  [][/\ \A h \in Handlers :
          Saves(h, "enter") /\ resp'.code = 200
            => requests[handlers[h].rid].entryDetails.enteredAt = Null
     /\ \A i \in Ids :
          requests[i].entryDetails.enteredAt # Null
            => Entry(requests'[i]) = Entry(requests[i])]_vars

\* C25 witness: two markEntered calls passed their guards on the same
\* accepted request; one has been answered, the other is about to save
C25_Witness ==
  /\ resp.op = "enter"
  /\ resp.code # 0
  /\ handlers["h1"].op = "idle"
  /\ handlers["h2"].op = "enter"
  /\ handlers["h2"].pc = "save"
  /\ handlers["h2"].loaded.status = "accepted"
  /\ requests[handlers["h2"].rid].memberResponse.action = "accept"

\* C26: the persisted status of every Request is a value of the schema enum
\* in every reachable state; a save that would write another value, such as
\* in-progress, is rejected by validation: the handler answers 500 and the
\* persisted Requests are unchanged.
C26_StatusInEnum ==
  /\ [](\A i \in Ids : requests[i].status \in StatusEnum)
  /\ [][\A h \in Handlers :
          (/\ handlers[h].pc = "save"
           /\ handlers[h].doc.status \notin StatusEnum
           /\ handlers'[h] # handlers[h])
            => /\ resp'.code = 500
               /\ resp'.op = handlers[h].op
               /\ requests' = requests]_vars

\* C26 witness: a markEntered of an accepted request tried to save status
\* in-progress and was answered 500; the request is still accepted, with no
\* enteredAt
C26_Witness ==
  /\ resp.op = "enter"
  /\ resp.code = 500
  /\ \E i \in Ids :
       /\ requests[i].status = "accepted"
       /\ requests[i].entryDetails.allowedAt # Null
       /\ requests[i].entryDetails.enteredAt = Null

\* requests i and j are pending at the same company
PendingTogether(i, j) ==
  /\ requests[i].status = "pending"
  /\ requests[j].status = "pending"
  /\ requests[i].company = requests[j].company

\* C27 as stated: where creates do not interleave, any two Requests of one
\* company that are pending at the same time have different stored
\* queuePositions, also after earlier requests left pending.
C27_PendingPositionsDistinct ==
  \A i, j \in Ids :
    i < j /\ PendingTogether(i, j)
      => requests[i].queuePosition # requests[j].queuePosition

\* no request of the company of j that was created before j has left pending
Undrained(j) ==
  \A k \in Ids :
    k < j /\ requests[k].company = requests[j].company
      => requests[k].status = "pending"

\* C27 amended: where creates do not interleave, two Requests of one company
\* that are pending at the same time have different stored queuePositions
\* when their createdAt differ and no request of the company created before
\* the later of the two has left pending.
C27_PendingPositionsDistinctUndrained ==
  \A i, j \in Ids :
    (/\ i < j
     /\ PendingTogether(i, j)
     /\ requests[i].createdAt # requests[j].createdAt
     /\ Undrained(j))
      => requests[i].queuePosition # requests[j].queuePosition

\* C27 witness: two requests of one company, created one after the other at
\* different times and both still pending, hold positions 1 and 2
C27_Witness ==
  /\ Len(requests) = 2
  /\ PendingTogether(1, 2)
  /\ requests[1].createdAt < requests[2].createdAt
  /\ requests[1].queuePosition = 1
  /\ requests[2].queuePosition = 2

\* request i is at a position of the live queue view of its company that is
\* greater than n, in some order the sort of the view allows
LiveAfter(i, n) ==
  \E q \in FindPendingSorted(requests[i].company) :
    \E k \in DOMAIN q : q[k] = i /\ QueueData(q)[k].position > n

\* C28 as stated: in every reachable state the live queue position of a
\* pending Request is never greater than its stored queuePosition.
C28_LiveNotAfterStored ==
  \A i \in Ids :
    requests[i].status = "pending" => ~LiveAfter(i, requests[i].queuePosition)

\* no other pending request of the company of i has the createdAt of i
CreatedAlone(i) ==
  \A j \in PendingOf(requests[i].company) :
    j # i => requests[j].createdAt # requests[i].createdAt

\* C28 amended: where creates do not interleave, the live queue position of a
\* pending Request whose createdAt differs from that of every other pending
\* request of its company is never greater than its stored queuePosition.
C28_LiveNotAfterStoredSequential ==
  \A i \in Ids :
    requests[i].status = "pending" /\ CreatedAlone(i)
      => ~LiveAfter(i, requests[i].queuePosition)

\* C28 witness: a request stored with queuePosition 2 is first in the live
\* queue view, the request ahead of it having left pending, and a later
\* request is pending behind it
C28_Witness ==
  \E i, j \in Ids :
    /\ PendingTogether(i, j)
    /\ requests[i].createdAt < requests[j].createdAt
    /\ requests[i].queuePosition = 2
    /\ ~LiveAfter(i, 1)
    /\ LiveAfter(j, 1)

\* the requests of the triple that are accepted and have not entered
AcceptedFor(v, m, c) ==
  {i \in Ids : /\ requests[i].visitor = v /\ requests[i].member = m
               /\ requests[i].company = c /\ requests[i].status = "accepted"
               /\ requests[i].entryDetails.enteredAt = Null}

\* C29 as stated: per (visitor, member, company) triple at most one Request
\* is active (pending, or accepted and not yet entered), and a create for a
\* triple that has an accepted request is rejected.
C29_OneActivePerTriple ==
  \A v \in DOMAIN Visitors, m \in DOMAIN Members, c \in DOMAIN Companies :
    /\ Cardinality(PendingFor(v, m, c) \cup AcceptedFor(v, m, c)) <= 1
    /\ AcceptedFor(v, m, c) # {} => CreateGuard(v, c, m).code # 0

\* C29 amended: with one call at a time, per triple at most one Request is
\* pending; an accepted request of the triple does not block a create: when
\* the triple has no pending request and the other guards pass, the create
\* is let through, whatever accepted requests the triple has.
C29_OnePendingAcceptedDoesNotBlock ==
  \A v \in DOMAIN Visitors, m \in DOMAIN Members, c \in DOMAIN Companies :
    /\ Cardinality(PendingFor(v, m, c)) <= 1
    /\ (/\ PendingFor(v, m, c) = {}
        /\ ~Visitors[v].isBlacklisted
        /\ Companies[c].isActive
        /\ Members[m].isActive
        /\ \E mc \in Members[m].companies : mc.company = c /\ mc.isActive)
         => CreateGuard(v, c, m).code = 0

\* C29 witness: a triple has an accepted request that has not entered and,
\* created after it, a pending request
C29_Witness ==
  \E i, j \in Ids :
    /\ i < j
    /\ i \in AcceptedFor(requests[j].visitor, requests[j].member, requests[j].company)
    /\ requests[j].status = "pending"
    /\ requests[j].queuePosition = 1

\* C30: in every reachable state, also under interleaved responses,
\* force-accepts and cancels: a Request with status accepted has allowedAt
\* set and memberResponse.action accept, and a Request with status declined
\* has no allowedAt and memberResponse.action decline.
C30_StatusMatchesResponse ==
  \A i \in Ids :
    /\ requests[i].status = "accepted"
         => /\ requests[i].entryDetails.allowedAt # Null
            /\ requests[i].memberResponse.action = "accept"
    /\ requests[i].status = "declined"
         => /\ requests[i].entryDetails.allowedAt = Null
            /\ requests[i].memberResponse.action = "decline"

====
